---- MODULE Spec2Model ----
(***************************************************************************)
(* Model of src/server.js (lines 1-521): the WebSocket chat relay with its *)
(* session table (users), moderation state (bannedUsernames, bannedIPs,    *)
(* muteExpires), channel histories and broadcast fan-out.                  *)
(*                                                                         *)
(* Time is an integer number of minutes (new Date() reads `now`).  Every   *)
(* handler runs to completion (Node's single thread), so each handler is   *)
(* one action.  `sent` holds what the last handler wrote to each socket,   *)
(* `lastEvent` names the type of the event it handled.                     *)
(*                                                                         *)
(* A socket slot is "free" (no WebSocket object with handlers), "open"     *)
(* (readyState OPEN, in wss.clients) or "closing" (ws.terminate() was      *)
(* called, the 'close' event has not fired yet).  ws.send on a socket that *)
(* is not open delivers nothing; no 'message' event is handled for a       *)
(* socket that is not open.  After 'close' the slot is free again and may  *)
(* carry a new connection.                                                 *)
(***************************************************************************)
EXTENDS Integers, Sequences, FiniteSets, TLC

\* ---------------------------------------------------------------- bounds
MaxSteps == 5
MaxTime == 2
MaxPosts == 2
MaxPostsHist == 102
AnyChannelPosts == 1
MaxTimeSweep == 3

\* ------------------------------------------------------ program constants
HistoryLimit == 100
\* calculateExpiry(0): 100 * 365 * 24 * 60 minutes
HundredYears == 52560000

\* socket slots; a new connection takes the lowest free one
Conns == {1, 2, 3}
Names == {"alice", "bob"}
Origins == {"ip1", "ip2"}
Durations == {0, 1, 2}
BanTypes == {"username", "ip", "other"}
\* Keys a client may name: two of the three own channels, a key that does not
\* exist, and a key found on Object.prototype.
ChannelInputs == {"general", "random", "nochan", "constructor"}
ProtoKeys == {"constructor"}
Texts == {"hi"}
AdminTypes == {"admin_kick", "admin_mute", "admin_ban", "admin_clear"}
\* message.type.startsWith('admin_'): the four admin events and any other such type
AdminPrefixed == AdminTypes \cup {"admin_other"}

NoUser == [username |-> "", ip |-> "", isAdmin |-> FALSE, muteExpires |-> -1, present |-> FALSE]
Null == -1
NoBan == -1
NoIp == ""

\* conn, users, bannedUsernames, bannedIPs, channels: the server's state.
\* now: the clock.  nextId: stands for generateId().  sent, lastEvent: what the
\* last handler did.  posted: per channel, the posts stored since it was last
\* cleared.  steps: how many events were handled.
VARIABLES conn, users, bannedUsernames, bannedIPs, channels, now, nextId,
          sent, lastEvent, posted, steps

vars == <<conn, users, bannedUsernames, bannedIPs, channels, now, nextId,
          sent, lastEvent, posted, steps>>

store == <<users, bannedUsernames, bannedIPs, channels>>

\* ------------------------------------------------------------- effects
ErrorE(text, kick) == [type |-> "error", message |-> text, kick |-> kick]
ConnectedE == [type |-> "connected", message |-> "Connected to server"]
JoinedE(username) == [type |-> "joined", username |-> username, channels |-> DOMAIN channels]
MessageE(cm) == [type |-> "message", message |-> cm]
HistoryE(channel, messages) == [type |-> "history", channel |-> channel, messages |-> messages]
TypingE(username, channel, isTyping) ==
    [type |-> "typing", username |-> username, channel |-> channel, isTyping |-> isTyping]
MutedE(duration) == [type |-> "muted", reason |-> IF duration = 0 THEN "permanently" ELSE "minutes"]
ConfirmE(text) == [type |-> "admin_confirm", message |-> text]
InfoE == [type |-> "info", message |-> "Your mute has expired."]

NothingSent == [c \in Conns |-> <<>>]

IsOpen(c) == conn[c].state = "open"
OpenConns == {c \in Conns : IsOpen(c)}
HasUserAlways(c) == TRUE
HasUser(c) == users[c].present

\* ws.send(e): delivered only while the socket is open
Send(out, c, e, open) == IF c \in open THEN [out EXCEPT ![c] = Append(@, e)] ELSE out

\* broadcast(message, excludeWs): every client of wss.clients with readyState OPEN
BroadcastToSessions(exclude, open) == {c \in open : c # exclude /\ users[c].present}
BroadcastTo(exclude, open) == {c \in open : c # exclude}
Broadcast(out, e, exclude, open) ==
    [c \in Conns |-> IF c \in BroadcastTo(exclude, open) THEN Append(out[c], e) ELSE out[c]]

\* u.muteExpires && u.muteExpires > new Date()
MuteActiveInclusive(muteExpires, t) == muteExpires # Null /\ muteExpires >= t
MuteActive(muteExpires, t) == muteExpires # Null /\ muteExpires > t

UserListBefore(us, t) ==
    [type |-> "userList",
     users |-> {[username |-> users[c].username, isAdmin |-> users[c].isAdmin,
                 isMuted |-> MuteActive(users[c].muteExpires, t)] : c \in {d \in Conns : users[d].present}}]
UserList(us, t) ==
    [type |-> "userList",
     users |-> {[username |-> us[c].username, isAdmin |-> us[c].isAdmin,
                 isMuted |-> MuteActive(us[c].muteExpires, t)] : c \in {d \in Conns : us[d].present}}]

\* findSocketByUsername / findUserByUsername: first entry of users with that
\* name (0 when none).  The Map's insertion order is not kept: names are unique
\* in every reachable state, so the match is the only one.
Holders(username) == {c \in Conns : users[c].present /\ users[c].username = username}
FindSocketByUsername(username) ==
    IF Holders(username) = {} THEN 0
    ELSE CHOOSE c \in Holders(username) : \A d \in Holders(username) : c <= d

CalculateExpiry(duration) ==
    IF duration = 0 THEN now + HundredYears ELSE now + duration

\* ---------------------------------------------------------------- Init
Init ==
    /\ conn = [c \in Conns |-> [state |-> "free", ip |-> NoIp]]
    /\ users = [c \in Conns |-> NoUser]
    /\ bannedUsernames = {}
    /\ bannedIPs = [o \in Origins |-> NoBan]
    /\ channels = [k \in {"general", "random", "gaming"} |-> <<>>]
    /\ now = 0
    /\ nextId = 0
    /\ sent = NothingSent
    /\ lastEvent = "init"
    /\ posted = [k \in {"general", "random", "gaming"} |-> <<>>]
    /\ steps = 0

\* ------------------------------------------------------ time and sweep
\* one minute passes on the clock that new Date() reads
Advance ==
    /\ now' = now + 1
    /\ sent' = NothingSent
    /\ lastEvent' = "tick"
    /\ UNCHANGED <<conn, store, nextId, posted>>
Tick == now < MaxTime /\ Advance

\* banInfo.expires < now
BanSwept(expires, t) == expires # NoBan /\ expires < t
\* user.muteExpires && user.muteExpires < now
MuteSweptAlways(muteExpires, t) == muteExpires # Null
MuteSwept(muteExpires, t) == muteExpires # Null /\ muteExpires < t

Sweep ==
    LET cleared == {c \in Conns : users[c].present /\ MuteSwept(users[c].muteExpires, now)}
        notes(d) == Cardinality({c \in cleared : FindSocketByUsername(users[c].username) = d})
    IN  /\ bannedIPs' = [o \in Origins |-> IF BanSwept(bannedIPs[o], now) THEN NoBan ELSE bannedIPs[o]]
        /\ users' = [c \in Conns |-> IF c \in cleared THEN [users[c] EXCEPT !.muteExpires = Null]
                                     ELSE users[c]]
        /\ sent' = [d \in Conns |-> IF IsOpen(d) THEN [i \in 1..notes(d) |-> InfoE] ELSE <<>>]
        /\ lastEvent' = "sweep"
        /\ UNCHANGED <<conn, bannedUsernames, channels, now, nextId, posted>>

\* ------------------------------------------------- wss.on('connection')
\* banInfo.expires > new Date()
OriginBannedInclusive(ip, t) == bannedIPs[ip] # NoBan /\ bannedIPs[ip] >= t
OriginBanned(ip, t) == bannedIPs[ip] # NoBan /\ bannedIPs[ip] > t

Connection(c, ip) ==
    /\ conn[c].state = "free"
    /\ \A d \in Conns : d < c => conn[d].state # "free"
    /\ lastEvent' = "connection"
    /\ IF OriginBanned(ip, now)
       THEN /\ sent' = [NothingSent EXCEPT ![c] = <<ErrorE("You are banned from this server.", TRUE)>>]
            /\ UNCHANGED <<conn, store, now, nextId, posted>>
       ELSE /\ bannedIPs' = [bannedIPs EXCEPT ![ip] = NoBan]
            /\ conn' = [conn EXCEPT ![c] = [state |-> "open", ip |-> ip]]
            /\ sent' = [NothingSent EXCEPT ![c] = <<ConnectedE>>]
            /\ UNCHANGED <<users, bannedUsernames, channels, now, nextId, posted>>

\* ws.on('close'): a client disconnect, or the end of a terminate()
Close(c) ==
    /\ conn[c].state \in {"open", "closing"}
    /\ lastEvent' = "close"
    /\ conn' = [conn EXCEPT ![c] = [state |-> "free", ip |-> NoIp]]
    /\ IF HasUser(c)
       THEN /\ users' = [users EXCEPT ![c] = NoUser]
            /\ sent' = Broadcast(NothingSent, UserList(users', now), 0, OpenConns \ {c})
       ELSE /\ users' = users
            /\ sent' = NothingSent
    /\ UNCHANGED <<bannedUsernames, bannedIPs, channels, now, nextId, posted>>

\* ------------------------------------------------------------ handlers
Terminate(cn, c) == [cn EXCEPT ![c].state = "closing"]

\* !user || !user.isAdmin
UnauthorizedNoSessionOnly(c) == ~users[c].present
Unauthorized(c) == ~users[c].present \/ ~users[c].isAdmin

\* bannedUsernames.has(username)
IdentityBannedNever(username) == FALSE
IdentityBanned(username) == username \in bannedUsernames
\* findUserByUsername(username) is truthy
IdentityTakenNever(username) == FALSE
IdentityTakenLive(username) == \E c \in Holders(username) : IsOpen(c)
IdentityTaken(username) == FindSocketByUsername(username) # 0

HandleJoin(c, m) ==
    IF IdentityBanned(m.username)
    THEN /\ sent' = Send(NothingSent, c, ErrorE("This username is banned.", TRUE), OpenConns)
         /\ conn' = Terminate(conn, c)
         /\ UNCHANGED <<store, nextId, posted>>
    ELSE IF IdentityTaken(m.username)
    THEN /\ sent' = Send(NothingSent, c, ErrorE("This username is already taken.", TRUE), OpenConns)
         /\ conn' = Terminate(conn, c)
         /\ UNCHANGED <<store, nextId, posted>>
    ELSE /\ users' = [users EXCEPT ![c] = [username |-> m.username, ip |-> conn[c].ip,
                                            isAdmin |-> m.isAdmin, muteExpires |-> Null,
                                            present |-> TRUE]]
         /\ sent' = Broadcast(Send(NothingSent, c, JoinedE(m.username), OpenConns),
                              UserList(users', now), 0, OpenConns)
         /\ UNCHANGED <<conn, bannedUsernames, bannedIPs, channels, nextId, posted>>

\* channels[channel]: an own key, or a property inherited from Object.prototype
ChannelTruthy(channel) == channel \in DOMAIN channels \/ channel \in ProtoKeys

\* push, then shift once when longer than 100
StoreMessageDropNewest(history, cm) ==
    LET h == Append(history, cm)
    IN  IF Len(h) > HistoryLimit THEN SubSeq(h, 1, HistoryLimit) ELSE h
StoreMessage(history, cm) ==
    LET h == Append(history, cm)
    IN  IF Len(h) > HistoryLimit THEN Tail(h) ELSE h

\* `You are muted. Expires in ${remaining} minutes.`
MutedErrorE(muteExpires, t) ==
    [type |-> "error", message |-> "You are muted.", minutes |-> muteExpires - t, kick |-> FALSE]

\* broadcast(broadcastData): no socket is excluded
ChatExcludeSender(c) == c
ChatExclude(c) == 0

HandleChatMessage(c, m) ==
    IF ~HasUser(c)
    THEN sent' = NothingSent /\ UNCHANGED <<conn, store, nextId, posted>>
    ELSE IF MuteActive(users[c].muteExpires, now)
    THEN /\ sent' = Send(NothingSent, c, MutedErrorE(users[c].muteExpires, now), OpenConns)
         /\ UNCHANGED <<conn, store, nextId, posted>>
    ELSE LET chatMessage == [id |-> nextId, author |-> users[c].username, text |-> m.text,
                             channel |-> m.channel, timestamp |-> now,
                             isAdmin |-> users[c].isAdmin]
         IN  /\ nextId' = nextId + 1
             /\ IF m.channel \in DOMAIN channels
                THEN /\ channels' = [channels EXCEPT ![m.channel] = StoreMessage(@, chatMessage)]
                     /\ posted' = [posted EXCEPT ![m.channel] = Append(@, chatMessage)]
                     /\ sent' = Broadcast(NothingSent, MessageE(chatMessage), ChatExclude(c), OpenConns)
                ELSE IF m.channel \in ProtoKeys
                \* channels[channel].push is not a function: the TypeError is
                \* caught by the 'message' listener
                THEN /\ sent' = Send(NothingSent, c, ErrorE("Error parsing message", FALSE), OpenConns)
                     /\ UNCHANGED <<channels, posted>>
                ELSE /\ sent' = Broadcast(NothingSent, MessageE(chatMessage), ChatExclude(c), OpenConns)
                     /\ UNCHANGED <<channels, posted>>
             /\ UNCHANGED <<conn, users, bannedUsernames, bannedIPs>>

HandleGetHistory(c, m) ==
    /\ sent' = Send(NothingSent, c,
                    IF m.channel \in DOMAIN channels THEN HistoryE(m.channel, channels[m.channel])
                    ELSE IF m.channel \in ProtoKeys
                    \* JSON.stringify drops a function-valued property
                    THEN [type |-> "history", channel |-> m.channel]
                    ELSE HistoryE(m.channel, <<>>),
                    OpenConns)
    /\ UNCHANGED <<conn, store, nextId, posted>>

HandleTyping(c, m) ==
    /\ IF ~HasUser(c) \/ MuteActive(users[c].muteExpires, now)
       THEN sent' = NothingSent
       ELSE sent' = Broadcast(NothingSent, TypingE(users[c].username, m.channel, m.isTyping),
                              c, OpenConns)
    /\ UNCHANGED <<conn, store, nextId, posted>>

HandleAdminKick(c, m) ==
    LET targetSocket == FindSocketByUsername(m.targetUsername)
    IN  IF targetSocket # 0
        THEN /\ conn' = Terminate(conn, targetSocket)
             /\ sent' = Broadcast(
                          Send(Send(NothingSent, targetSocket,
                                    ErrorE("You have been kicked by an admin.", TRUE), OpenConns),
                               c, ConfirmE("has been kicked"), OpenConns \ {targetSocket}),
                          UserList(users, now), 0, OpenConns \ {targetSocket})
             /\ UNCHANGED <<store, nextId, posted>>
        ELSE /\ sent' = Send(NothingSent, c, ErrorE("User not found.", FALSE), OpenConns)
             /\ UNCHANGED <<conn, store, nextId, posted>>

HandleAdminMute(c, m) ==
    LET target == FindSocketByUsername(m.targetUsername)
    IN  IF target # 0
        THEN /\ users' = [users EXCEPT ![target].muteExpires = CalculateExpiry(m.duration)]
             /\ sent' = Broadcast(
                          Send(Send(NothingSent, target, MutedE(m.duration), OpenConns),
                               c, ConfirmE("has been muted"), OpenConns),
                          UserList(users', now), 0, OpenConns)
             /\ UNCHANGED <<conn, bannedUsernames, bannedIPs, channels, nextId, posted>>
        ELSE /\ sent' = Send(NothingSent, c, ErrorE("User not found.", FALSE), OpenConns)
             /\ UNCHANGED <<conn, store, nextId, posted>>

\* banType === 'ip'
BanTypeIsIpOrOther(banType) == banType # "username"
BanTypeIsIp(banType) == banType = "ip"

HandleAdminBan(c, m) ==
    LET target == FindSocketByUsername(m.targetUsername)
        kick == ErrorE("You have been banned from the server.", TRUE)
    IN  IF target = 0
        THEN /\ sent' = Send(NothingSent, c, ErrorE("User not found.", FALSE), OpenConns)
             /\ UNCHANGED <<conn, store, nextId, posted>>
        ELSE IF m.banType = "username"
        THEN /\ bannedUsernames' = bannedUsernames \cup {m.targetUsername}
             /\ sent' = Send(Send(NothingSent, c, ConfirmE("has been permanently banned"), OpenConns),
                             target, kick, OpenConns)
             /\ conn' = Terminate(conn, target)
             /\ UNCHANGED <<users, bannedIPs, channels, nextId, posted>>
        ELSE IF BanTypeIsIp(m.banType)
        THEN /\ bannedIPs' = [bannedIPs EXCEPT ![users[target].ip] = CalculateExpiry(m.duration)]
             /\ sent' = Send(Send(NothingSent, c, ConfirmE("IP has been banned"), OpenConns),
                             target, kick, OpenConns)
             /\ conn' = Terminate(conn, target)
             /\ UNCHANGED <<users, bannedUsernames, channels, nextId, posted>>
        ELSE /\ sent' = Send(NothingSent, c, ErrorE("Invalid ban type.", FALSE), OpenConns)
             /\ UNCHANGED <<conn, store, nextId, posted>>

HandleAdminClear(c, m) ==
    IF ChannelTruthy(m.channel)
    THEN /\ channels' = [k \in DOMAIN channels \cup {m.channel} |->
                            IF k = m.channel THEN <<>> ELSE channels[k]]
         /\ posted' = [k \in DOMAIN channels \cup {m.channel} |->
                            IF k = m.channel THEN <<>> ELSE posted[k]]
         /\ sent' = Send(Broadcast(NothingSent, HistoryE(m.channel, <<>>), 0, OpenConns),
                         c, ConfirmE("has been cleared"), OpenConns)
         /\ UNCHANGED <<conn, users, bannedUsernames, bannedIPs, nextId>>
    ELSE /\ sent' = Send(NothingSent, c, ErrorE("Channel not found.", FALSE), OpenConns)
         /\ UNCHANGED <<conn, store, nextId, posted>>

\* handleMessage: the admin gate, then the switch on message.type
HandleMessage(c, m) ==
    IF m.type \in AdminPrefixed /\ Unauthorized(c)
    THEN /\ sent' = Send(NothingSent, c,
                         ErrorE("You are not authorized for this action.", FALSE), OpenConns)
         /\ UNCHANGED <<conn, store, nextId, posted>>
    ELSE CASE m.type = "join" -> HandleJoin(c, m)
           [] m.type = "message" -> HandleChatMessage(c, m)
           [] m.type = "getHistory" -> HandleGetHistory(c, m)
           [] m.type = "typing" -> HandleTyping(c, m)
           [] m.type = "admin_kick" -> HandleAdminKick(c, m)
           [] m.type = "admin_mute" -> HandleAdminMute(c, m)
           [] m.type = "admin_ban" -> HandleAdminBan(c, m)
           [] m.type = "admin_clear" -> HandleAdminClear(c, m)
           [] OTHER -> sent' = NothingSent /\ UNCHANGED <<conn, store, nextId, posted>>

\* ws.on('message'): only an open socket delivers a frame
OnMessage(c, m) ==
    /\ IsOpen(c)
    /\ lastEvent' = m.type
    /\ now' = now
    /\ HandleMessage(c, m)

\* a frame that is not JSON, or has no string `type`: caught by the listener
OnMalformed(c) ==
    /\ IsOpen(c)
    /\ lastEvent' = "malformed"
    /\ sent' = Send(NothingSent, c, ErrorE("Error parsing message", FALSE), OpenConns)
    /\ UNCHANGED <<conn, store, now, nextId, posted>>

\* ------------------------------------------------------------- inputs
JoinMsgs == [type : {"join"}, username : Names, isAdmin : BOOLEAN]
ChatMsgs == [type : {"message"}, channel : ChannelInputs, text : Texts]
GetHistoryMsgs == [type : {"getHistory"}, channel : ChannelInputs]
TypingMsgs == [type : {"typing"}, channel : {"general"}, isTyping : {TRUE}]
KickMsgs == [type : {"admin_kick"}, targetUsername : Names]
MuteMsgs == [type : {"admin_mute"}, targetUsername : Names, duration : Durations]
\* the duration only matters to an ip ban
BanMsgs == [type : {"admin_ban"}, targetUsername : Names, duration : Durations, banType : {"ip"}]
           \cup [type : {"admin_ban"}, targetUsername : Names, duration : {1},
                 banType : BanTypes \ {"ip"}]
ClearMsgs == [type : {"admin_clear"}, channel : ChannelInputs]
UnknownMsgs == [type : {"ping", "admin_other"}]

\* one more event, within the bound on the length of a run
Step(A) == steps < MaxSteps /\ steps' = steps + 1 /\ A

RecvJoin == \E c \in Conns, m \in JoinMsgs : Step(OnMessage(c, m))
RecvChat == \E c \in Conns, m \in ChatMsgs : nextId < MaxPosts /\ Step(OnMessage(c, m))
RecvGetHistory == \E c \in Conns, m \in GetHistoryMsgs : Step(OnMessage(c, m))
RecvTyping == \E c \in Conns, m \in TypingMsgs : Step(OnMessage(c, m))
RecvAdminKick == \E c \in Conns, m \in KickMsgs : Step(OnMessage(c, m))
RecvAdminMute == \E c \in Conns, m \in MuteMsgs : Step(OnMessage(c, m))
RecvAdminBan == \E c \in Conns, m \in BanMsgs : Step(OnMessage(c, m))
RecvAdminClear == \E c \in Conns, m \in ClearMsgs : Step(OnMessage(c, m))
RecvUnknown == \E c \in Conns, m \in UnknownMsgs : Step(OnMessage(c, m))
RecvMalformed == \E c \in Conns : Step(OnMalformed(c))
Connect == \E c \in Conns, ip \in Origins : Step(Connection(c, ip))
Disconnect == \E c \in Conns : Step(Close(c))
SweepTimer == Step(Sweep)
ClockTick == Step(Tick)

Next ==
    \/ Connect
    \/ Disconnect
    \/ RecvJoin
    \/ RecvChat
    \/ RecvGetHistory
    \/ RecvTyping
    \/ RecvAdminKick
    \/ RecvAdminMute
    \/ RecvAdminBan
    \/ RecvAdminClear
    \/ RecvUnknown
    \/ RecvMalformed
    \/ SweepTimer
    \/ ClockTick

Spec == Init /\ [][Next]_vars

\* ------------------------------------------------ long runs of posts
\* One elevated session posting up to MaxPostsHist messages: the first
\* AnyChannelPosts of them to any key, the rest to "general".
HistMsgs == {m \in ChatMsgs : m.channel = "general" \/ nextId < AnyChannelPosts}
HistConnect == Connection(1, "ip1") /\ UNCHANGED steps
HistJoin == ~HasUser(1) /\ OnMessage(1, [type |-> "join", username |-> "alice", isAdmin |-> TRUE])
            /\ UNCHANGED steps
HistChat == \E m \in HistMsgs : nextId < MaxPostsHist /\ OnMessage(1, m) /\ UNCHANGED steps
HistClear == /\ Len(channels["general"]) \in {1, HistoryLimit}
             /\ OnMessage(1, [type |-> "admin_clear", channel |-> "general"])
             /\ UNCHANGED steps

NextHist ==
    \/ HistConnect
    \/ HistJoin
    \/ HistChat
    \/ HistClear

SpecHist == Init /\ [][NextHist]_vars

\* ------------------------------------------- the periodic sweep, fairly
\* setInterval runs the sweep every minute and the clock keeps advancing:
\* both are weakly fair.  The clock stops at MaxTimeSweep, so a finite mute or
\* ban is issued only while its expiry lies before that; the run is not bounded
\* in length.
InTime(m) == m.duration = 0 \/ now + m.duration < MaxTimeSweep
\* two connections, one from each origin: the first joins as the elevated
\* alice, the second as bob
SweepJoinMsg(c) == [type |-> "join", username |-> IF c = 1 THEN "alice" ELSE "bob", isAdmin |-> c = 1]
SweepConnect ==
    /\ \E c \in {1, 2} : Connection(c, IF c = 1 THEN "ip1" ELSE "ip2")
    /\ UNCHANGED steps
SweepDisconnect == (\E c \in {1, 2} : Close(c)) /\ UNCHANGED steps
SweepJoin == (\E c \in {1, 2} : ~HasUser(c) /\ OnMessage(c, SweepJoinMsg(c))) /\ UNCHANGED steps
SweepMute == (\E m \in MuteMsgs : InTime(m) /\ OnMessage(1, m)) /\ UNCHANGED steps
SweepBan ==
    /\ \E m \in BanMsgs : m.banType = "ip" /\ InTime(m) /\ OnMessage(1, m)
    /\ UNCHANGED steps
SweepClock == now < MaxTimeSweep /\ Advance /\ UNCHANGED steps
SweepRun == Sweep /\ UNCHANGED steps

NextSweep ==
    \/ SweepConnect
    \/ SweepDisconnect
    \/ SweepJoin
    \/ SweepMute
    \/ SweepBan
    \/ SweepClock
    \/ SweepRun

SpecSweep == Init /\ [][NextSweep]_vars /\ WF_vars(SweepClock) /\ WF_vars(SweepRun)

\* ------------------------------------------- events with a field missing
\* A field the frame does not carry is `undefined` after destructuring.
Undefined == "undefined"
JoinNoIdentityMsgs == [type : {"join"}, username : {Undefined}, isAdmin : BOOLEAN]
ChatNoFieldMsgs ==
    [type : {"message"}, channel : {"general", Undefined}, text : Texts \cup {Undefined}]
    \ ChatMsgs
RecvJoinNoIdentity == \E c \in Conns, m \in JoinNoIdentityMsgs : Step(OnMessage(c, m))
RecvChatNoField ==
    \E c \in Conns, m \in ChatNoFieldMsgs : nextId < MaxPosts /\ Step(OnMessage(c, m))

NextFields ==
    \/ Connect
    \/ Disconnect
    \/ RecvJoin
    \/ RecvJoinNoIdentity
    \/ RecvChatNoField

SpecFields == Init /\ [][NextFields]_vars

\* ================================================================ claims
AdminMsgs == KickMsgs \cup MuteMsgs \cup BanMsgs \cup ClearMsgs
OnlyTo(c, e) == [NothingSent EXCEPT ![c] = <<e>>]
TakenE == ErrorE("This username is already taken.", TRUE)
BannedNameE == ErrorE("This username is banned.", TRUE)
UnauthorizedE == ErrorE("You are not authorized for this action.", FALSE)

\* C1 -- Identity uniqueness.  In every reachable state no two entries of the
\* session table hold the same identity; and a join that claims an identity
\* held by a session whose connection is open is answered with the 'already
\* taken' error (kick flag) to the caller only and leaves the session table
\* unchanged; when the holder's entry is still in the table but its connection
\* is already terminated the join is rejected as well and creates no session.
C1_UniqueInTable ==
    \A c, d \in Conns :
        (c # d /\ users[c].present /\ users[d].present) => users[c].username # users[d].username
C1_JoinHeldRejected ==
    lastEvent' = "join" =>
        \A c \in Conns, m \in JoinMsgs :
            ((\E d \in Conns : users[d].present /\ users[d].username = m.username) /\ OnMessage(c, m))
            => /\ users' = users
               /\ conn'[c].state = "closing"
               /\ \E e \in {TakenE, BannedNameE} : sent' = OnlyTo(c, e)
               /\ (\E d \in Conns : /\ users[d].present /\ users[d].username = m.username
                                    /\ conn[d].state = "open")
                  => sent' = OnlyTo(c, TakenE)
C1_IdentityUniqueness == [](C1_UniqueInTable) /\ [][C1_JoinHeldRejected]_vars
\* a second connection was refused the identity that an open session holds
C1_Witness ==
    /\ lastEvent = "join"
    /\ \E c, d \in Conns :
        /\ c # d
        /\ sent[c] = <<TakenE>>
        /\ conn[c].state = "closing" /\ ~users[c].present
        /\ conn[d].state = "open" /\ users[d].present

\* C2 -- Authorization gating.  An admin_kick, admin_mute, admin_ban or
\* admin_clear event from a connection with no session or with a session that
\* is not elevated sends exactly one error to the caller, nothing to any other
\* connection, and changes neither the session table, the ban sets, the mute
\* expiries, the channel histories nor any connection's state.
C2_Gate ==
    lastEvent' \in AdminTypes =>
        \A c \in Conns :
            (conn[c].state = "open" /\ (~users[c].present \/ ~users[c].isAdmin)) =>
                \A m \in AdminMsgs :
                    (m.type = lastEvent' /\ OnMessage(c, m))
                    => /\ sent' = OnlyTo(c, UnauthorizedE)
                       /\ UNCHANGED <<users, bannedUsernames, bannedIPs, channels, conn>>
C2_AuthorizationGating == [][C2_Gate]_vars
\* a joined, non-elevated session was refused while another session exists
C2_Witness ==
    /\ lastEvent \in AdminTypes
    /\ \E c, d \in Conns :
        /\ c # d
        /\ conn[c].state = "open" /\ users[c].present /\ ~users[c].isAdmin
        /\ sent[c] = <<UnauthorizedE>>
        /\ conn[d].state = "open" /\ users[d].present /\ sent[d] = <<>>

\* C3 -- Mute enforcement.  A message event from a session whose mute-expiry
\* is strictly after `now` sends the sender one 'muted' error, nothing to
\* anyone else, and stores nothing; a message event from a session whose
\* mute-expiry is at or before `now` (still set, or already cleared by the sweep)
\* draws no 'muted' error, and when it names an existing channel the message is
\* stored and sent to every open connection.
C3_NoMutedError ==
    \A d \in Conns : \A i \in DOMAIN sent'[d] :
        ~(sent'[d][i].type = "error" /\ sent'[d][i].message = "You are muted.")
C3_Stored(c, m) ==
    LET h == channels'[m.channel]
    IN  /\ Len(h) > 0
        /\ h[Len(h)].author = users[c].username /\ h[Len(h)].text = m.text
        /\ posted'[m.channel] = Append(posted[m.channel], h[Len(h)])
        /\ \A d \in Conns : conn[d].state = "open" => sent'[d] = <<MessageE(h[Len(h)])>>
C3_Mute ==
    lastEvent' = "message" =>
        \A c \in Conns, m \in ChatMsgs :
            (users[c].present /\ OnMessage(c, m))
            => IF users[c].muteExpires # Null /\ users[c].muteExpires > now
               THEN /\ sent' = OnlyTo(c, MutedErrorE(users[c].muteExpires, now))
                    /\ UNCHANGED <<channels, posted>>
               ELSE /\ C3_NoMutedError
                    /\ m.channel \in DOMAIN channels => C3_Stored(c, m)
C3_MuteEnforcement == [][C3_Mute]_vars
\* a session whose mute has expired but has not been swept posted a message
C3_Witness ==
    /\ lastEvent = "message"
    /\ \E c \in Conns :
        /\ users[c].present
        /\ users[c].muteExpires # Null /\ users[c].muteExpires <= now
        /\ Len(sent[c]) = 1 /\ sent[c][1].type = "message"
        /\ sent[c][1].message.author = users[c].username

\* C4 -- History bound.  Every channel's history has at most 100 entries and
\* equals the last min(n, 100) of the n posts stored since the channel was
\* last cleared, in arrival order.
LastN(s, n) == IF Len(s) <= n THEN s ELSE SubSeq(s, Len(s) - n + 1, Len(s))
C4_HistoryBound ==
    \A k \in DOMAIN channels :
        /\ Len(channels[k]) <= 100
        /\ channels[k] = LastN(posted[k], 100)
\* 102 posts went to one channel: the first two were evicted
C4_Witness ==
    /\ Len(posted["general"]) = 102
    /\ Len(channels["general"]) = 100
    /\ channels["general"][1] = posted["general"][3]

\* C5 -- Identity ban permanence.  An identity-scoped admin_ban of a held
\* identity puts it in the identity ban set; no step removes an identity from
\* the set; a join claiming a banned identity sends the caller the 'banned'
\* error (kick flag), terminates the caller and leaves the session table
\* unchanged.
C5_Applied ==
    lastEvent' = "admin_ban" =>
        \A c \in Conns, m \in BanMsgs :
            (/\ users[c].present /\ users[c].isAdmin
             /\ m.banType = "username"
             /\ \E d \in Conns : users[d].present /\ users[d].username = m.targetUsername
             /\ OnMessage(c, m))
            => m.targetUsername \in bannedUsernames'
C5_Rejected ==
    lastEvent' = "join" =>
        \A c \in Conns, m \in JoinMsgs :
            (m.username \in bannedUsernames /\ OnMessage(c, m))
            => /\ users' = users
               /\ sent' = OnlyTo(c, BannedNameE)
               /\ conn'[c].state = "closing"
C5_IdentityBanPermanence ==
    [][C5_Applied /\ bannedUsernames \subseteq bannedUsernames' /\ C5_Rejected]_vars
\* a connection from another origin was refused a banned identity
C5_Witness ==
    /\ lastEvent = "join"
    /\ \E c, d \in Conns :
        /\ c # d
        /\ sent[c] = <<BannedNameE>> /\ conn[c].state = "closing" /\ ~users[c].present
        /\ users[d].present /\ users[d].username \in bannedUsernames
        /\ conn[c].ip # users[d].ip

\* C6 -- Origin ban window.  An origin-scoped admin_ban with duration D > 0 at
\* time t records expiry t + D for the target's origin (overwriting any earlier
\* record) and terminates the target's connection; a record changes only by a
\* later admin_ban or by removal once its expiry is not after `now`; a new
\* connection from an origin with a record is rejected (error with kick flag,
\* no 'connected', no open connection) when now < expiry and admitted when
\* expiry <= now, swept or not.
BannedOriginE == ErrorE("You are banned from this server.", TRUE)
C6_Issued ==
    lastEvent' = "admin_ban" =>
        \A c, t \in Conns, m \in BanMsgs :
            (/\ users[c].present /\ users[c].isAdmin
             /\ m.banType = "ip" /\ m.duration > 0
             /\ users[t].present /\ users[t].username = m.targetUsername
             /\ OnMessage(c, m))
            => /\ bannedIPs'[users[t].ip] = now + m.duration
               /\ conn'[t].state = "closing"
C6_Kept ==
    \A o \in Origins :
        (bannedIPs[o] # NoBan /\ bannedIPs'[o] # bannedIPs[o])
        => \/ lastEvent' = "admin_ban"
           \/ bannedIPs[o] <= now /\ bannedIPs'[o] = NoBan
C6_Admission ==
    lastEvent' = "connection" =>
        \A c \in Conns, ip \in Origins :
            (bannedIPs[ip] # NoBan /\ Connection(c, ip))
            => IF now < bannedIPs[ip]
               THEN /\ sent' = OnlyTo(c, BannedOriginE)
                    /\ UNCHANGED <<conn, users, bannedIPs>>
               ELSE /\ sent' = OnlyTo(c, ConnectedE)
                    /\ conn'[c] = [state |-> "open", ip |-> ip]
C6_OriginBanWindow == [][C6_Issued /\ C6_Kept /\ C6_Admission]_vars
\* some time after a finite origin ban was issued, and before its expiry, a
\* connection from the banned target's origin was rejected
C6_Witness ==
    /\ lastEvent = "connection"
    /\ now > 0
    /\ \E c, t \in Conns :
        /\ conn[c].state = "free" /\ sent[c] = <<BannedOriginE>>
        /\ users[t].present /\ conn[t].state = "closing"
        /\ bannedIPs[users[t].ip] # NoBan
        /\ now < bannedIPs[users[t].ip] /\ bannedIPs[users[t].ip] < HundredYears

\* C7 -- Broadcast completeness.  When a session that is not muted posts a
\* message to an existing channel, every joined session whose connection is
\* open, the sender included, is sent the stored message exactly once and
\* nothing else by that event.
C7_Delivered ==
    lastEvent' = "message" =>
        \A c \in Conns, m \in ChatMsgs :
            (/\ users[c].present
             /\ ~(users[c].muteExpires # Null /\ users[c].muteExpires > now)
             /\ m.channel \in DOMAIN channels
             /\ OnMessage(c, m))
            => LET h == channels'[m.channel]
               IN  /\ Len(h) > 0 /\ h[Len(h)].author = users[c].username
                   /\ \A d \in Conns :
                        (conn[d].state = "open" /\ users[d].present)
                        => sent'[d] = <<MessageE(h[Len(h)])>>
C7_BroadcastCompleteness == [][C7_Delivered]_vars
\* the sender and another joined session both got the sender's message
C7_Witness ==
    /\ lastEvent = "message"
    /\ \E c, d \in Conns :
        /\ c # d
        /\ conn[c].state = "open" /\ users[c].present
        /\ conn[d].state = "open" /\ users[d].present
        /\ Len(sent[c]) = 1 /\ sent[c][1].type = "message"
        /\ sent[c][1].message.author = users[c].username
        /\ sent[d] = sent[c]

\* C8 -- Broadcast recipients.  A broadcast effect is a message, userList or
\* typing effect, or the history effect of admin_clear.
IsBroadcastEffect(e) ==
    \/ e.type \in {"message", "userList", "typing"}
    \/ e.type = "history" /\ lastEvent = "admin_clear"
Receivers(e) ==
    {d \in Conns : \E i \in DOMAIN sent[d] : sent[d][i].type = e.type /\ sent[d][i] = e}
Excluded(e) ==
    IF e.type = "typing"
    THEN {c \in Conns : users[c].present /\ users[c].username = e.username}
    ELSE {}
\* C8 (as claimed) -- the connections that receive a broadcast are exactly the
\* connections that have a session, minus the excluded one.
C8_Original ==
    \A d \in Conns : \A i \in DOMAIN sent[d] :
        IsBroadcastEffect(sent[d][i])
        => Receivers(sent[d][i]) = {x \in Conns : users[x].present} \ Excluded(sent[d][i])
\* C8 (amended) -- the connections that receive a broadcast are exactly the
\* connections whose socket is open, joined or not, minus the excluded one.
C8_Amended ==
    \A d \in Conns : \A i \in DOMAIN sent[d] :
        IsBroadcastEffect(sent[d][i])
        => Receivers(sent[d][i]) = {x \in Conns : conn[x].state = "open"} \ Excluded(sent[d][i])
\* an open connection that never joined received a session's message
C8_Witness ==
    /\ lastEvent = "message"
    /\ \E c, d \in Conns :
        /\ conn[c].state = "open" /\ users[c].present
        /\ conn[d].state = "open" /\ ~users[d].present
        /\ Len(sent[d]) = 1 /\ sent[d][1].type = "message"
        /\ sent[d][1].message.author = users[c].username

\* C9 -- Single join per connection (as claimed).  Once a connection has a
\* session, a further join event from it changes neither the session's
\* identity, nor its authorization level, nor its mute-expiry.
C9_JoinKeepsSession ==
    lastEvent' = "join" =>
        \A c \in Conns, m \in JoinMsgs :
            (users[c].present /\ OnMessage(c, m)) => users'[c] = users[c]
C9_SingleJoin == [][C9_JoinKeepsSession]_vars

\* C10 -- Events before join (as claimed).  For an admitted connection with no
\* session, every event other than join sends nothing to anyone and changes no
\* store.
NonJoinMsgs == ChatMsgs \cup GetHistoryMsgs \cup TypingMsgs \cup AdminMsgs \cup UnknownMsgs
C10_NoEffect ==
    lastEvent' # "join" =>
        \A c \in Conns :
            (conn[c].state = "open" /\ ~users[c].present) =>
                \A m \in NonJoinMsgs :
                    (m.type = lastEvent' /\ OnMessage(c, m))
                    => /\ sent' = NothingSent
                       /\ UNCHANGED <<users, bannedUsernames, bannedIPs, channels>>
C10_Original == [][C10_NoEffect]_vars

\* C10 (amended) -- For an admitted connection with no session: message and
\* typing events, and events of an unknown type that does not begin with
\* "admin_", send nothing; getHistory sends the caller, and only the caller,
\* one history reply; an event whose type begins with "admin_" sends the
\* caller, and only the caller, one 'not authorized' error.  None of them
\* changes the session table, the ban sets, the channel histories or a
\* connection's state.
C10_BeforeJoin ==
    lastEvent' # "join" =>
        \A c \in Conns :
            (conn[c].state = "open" /\ ~users[c].present) =>
                \A m \in NonJoinMsgs :
                    (m.type = lastEvent' /\ OnMessage(c, m))
                    => /\ UNCHANGED <<users, bannedUsernames, bannedIPs, channels, conn>>
                       /\ m.type \in {"message", "typing", "ping"} => sent' = NothingSent
                       /\ m.type \in AdminPrefixed => sent' = OnlyTo(c, UnauthorizedE)
                       /\ m.type = "getHistory" =>
                            /\ \A d \in Conns \ {c} : sent'[d] = <<>>
                            /\ Len(sent'[c]) = 1
                            /\ sent'[c][1].type = "history" /\ sent'[c][1].channel = m.channel
C10_Amended == [][C10_BeforeJoin]_vars
\* a message event from a connection without a session was dropped although
\* an open, joined session was there to receive a broadcast
C10_Witness ==
    /\ lastEvent = "message"
    /\ sent = NothingSent
    /\ \E c, d \in Conns :
        /\ conn[c].state = "open" /\ ~users[c].present
        /\ conn[d].state = "open" /\ users[d].present

\* C11 -- Message to an unknown channel (as claimed).  When a session that is
\* not muted posts a message naming a channel that does not exist, no channel's
\* history changes, no channel is created, and no message effect is sent to
\* any connection.
C11_Dropped ==
    lastEvent' = "message" =>
        \A c \in Conns, m \in ChatMsgs :
            (/\ users[c].present
             /\ ~(users[c].muteExpires # Null /\ users[c].muteExpires > now)
             /\ m.channel \notin DOMAIN channels
             /\ OnMessage(c, m))
            => /\ channels' = channels
               /\ \A d \in Conns : \A i \in DOMAIN sent'[d] : sent'[d][i].type # "message"
C11_UnknownChannelDropped == [][C11_Dropped]_vars

\* C12 -- Kick removes the target before the snapshot (as claimed).  When an
\* elevated session issues admin_kick for an identity held by a session whose
\* connection is open, the target is sent the forced-disconnect error, its
\* connection is terminated, the caller (when it is not the target) is sent a
\* confirmation, and no user list sent by the kick handler contains the kicked
\* identity.
KickedE == ErrorE("You have been kicked by an admin.", TRUE)
C12_Kick ==
    lastEvent' = "admin_kick" =>
        \A c, t \in Conns, m \in KickMsgs :
            (/\ users[c].present /\ users[c].isAdmin
             /\ users[t].present /\ users[t].username = m.targetUsername
             /\ conn[t].state = "open"
             /\ OnMessage(c, m))
            => /\ Len(sent'[t]) > 0 /\ sent'[t][1] = KickedE
               /\ conn'[t].state = "closing"
               /\ c # t => \E i \in DOMAIN sent'[c] : sent'[c][i].type = "admin_confirm"
               /\ \A d \in Conns : \A i \in DOMAIN sent'[d] :
                    sent'[d][i].type = "userList"
                    => \A u \in sent'[d][i].users : u.username # m.targetUsername
C12_KickBeforeSnapshot == [][C12_Kick]_vars

\* C13 -- Permanent mute (as claimed).  An admin_mute with duration 0 against a
\* held identity sets a mute-expiry a hundred years after `now`; from then on
\* every message event of that session, while it exists, is answered to the
\* sender only with one error whose reason states that the mute is permanent
\* (it names no number of minutes after which the mute expires) and stores
\* nothing; and no run of the sweep clears that mute-expiry or sends the
\* session the 'mute expired' notification.
C13_PermanentlyMuted(c) ==
    users[c].present /\ users[c].muteExpires # Null /\ users[c].muteExpires >= HundredYears
C13_StatesPermanent(e) == e.type = "error" /\ "minutes" \notin DOMAIN e
C13_Set ==
    lastEvent' = "admin_mute" =>
        \A c, t \in Conns, m \in MuteMsgs :
            (/\ users[c].present /\ users[c].isAdmin
             /\ m.duration = 0
             /\ users[t].present /\ users[t].username = m.targetUsername
             /\ OnMessage(c, m))
            => users'[t].muteExpires = now + HundredYears
C13_Rejected ==
    lastEvent' = "message" =>
        \A c \in Conns, m \in ChatMsgs :
            (C13_PermanentlyMuted(c) /\ OnMessage(c, m))
            => /\ UNCHANGED <<channels, posted, users>>
               /\ \A d \in Conns \ {c} : sent'[d] = <<>>
               /\ Len(sent'[c]) = 1
               /\ C13_StatesPermanent(sent'[c][1])
C13_NeverSwept ==
    lastEvent' = "sweep" =>
        \A c \in Conns :
            C13_PermanentlyMuted(c)
            => /\ users'[c] = users[c]
               /\ \A i \in DOMAIN sent'[c] : sent'[c][i].type # "info"
C13_PermanentMute == [][C13_Set /\ C13_Rejected /\ C13_NeverSwept]_vars

\* C14 -- Rejected join leaves the holder untouched (as claimed).  When a
\* connection, the holder's own included, sends a join for an identity that is
\* not banned and is held by a session whose connection is open, the caller is
\* sent the 'already taken' error with the kick flag and is terminated, while
\* the holder's connection stays open and its session keeps its identity,
\* authorization and mute-expiry.
C14_Rejected ==
    lastEvent' = "join" =>
        \A c, h \in Conns, m \in JoinMsgs :
            (/\ users[h].present /\ users[h].username = m.username
             /\ conn[h].state = "open"
             /\ m.username \notin bannedUsernames
             /\ OnMessage(c, m))
            => /\ Len(sent'[c]) = 1 /\ sent'[c][1] = TakenE
               /\ conn'[c].state = "closing"
               /\ users'[h] = users[h]
               /\ conn'[h].state = "open"
C14_HolderUntouched == [][C14_Rejected]_vars

\* C15 -- Sweep lifts expired restrictions.  Under a fair periodic sweep and
\* an advancing clock: every origin ban with a finite duration is eventually
\* removed from the ban map (unless a permanent ban has replaced it); every
\* finite mute of a session whose connection stays open is eventually cleared
\* to 'no mute' (unless a permanent mute has replaced it); a sweep that clears
\* the mute of a session whose connection is open sends that session exactly
\* one 'mute expired' notification; and a sweep neither changes nor notifies a
\* session that has no mute or whose mute-expiry is after `now`, nor removes
\* an origin ban whose expiry is after `now`.
C15_FiniteBan(o) == bannedIPs[o] # NoBan /\ bannedIPs[o] < HundredYears
C15_FiniteMute(c) ==
    /\ users[c].present /\ conn[c].state = "open"
    /\ users[c].muteExpires # Null /\ users[c].muteExpires < HundredYears
C15_BanLifted == \A o \in Origins : C15_FiniteBan(o) ~> ~C15_FiniteBan(o)
C15_MuteLifted == \A c \in Conns : C15_FiniteMute(c) ~> ~C15_FiniteMute(c)
C15_SweepStep ==
    lastEvent' = "sweep" =>
        /\ \A c \in Conns :
            users[c].present =>
                /\ (users[c].muteExpires # Null /\ users'[c].muteExpires = Null)
                   => /\ users[c].muteExpires < now
                      /\ conn[c].state = "open" => sent'[c] = <<InfoE>>
                /\ (users[c].muteExpires = Null \/ users[c].muteExpires > now)
                   => users'[c] = users[c] /\ sent'[c] = <<>>
        /\ \A o \in Origins : bannedIPs[o] > now => bannedIPs'[o] = bannedIPs[o]
C15_SweepLifts == C15_BanLifted /\ C15_MuteLifted /\ [][C15_SweepStep]_vars
\* a sweep has just cleared the expired mute of an open session and notified
\* it, while the elevated session that issued the mute is still there
C15_Witness ==
    /\ lastEvent = "sweep"
    /\ now > 1
    /\ \E c, d \in Conns :
        /\ c # d
        /\ users[c].present /\ conn[c].state = "open"
        /\ users[c].muteExpires = Null /\ sent[c] = <<InfoE>>
        /\ users[d].present /\ users[d].isAdmin /\ sent[d] = <<>>

\* C16 -- Invalid ban scope changes nothing.  An admin_ban from an elevated
\* session against an identity held by a session whose connection is open,
\* with a scope that is neither identity nor origin, sends the 'invalid ban
\* type' error to the caller and nothing to anyone else, adds nothing to the
\* identity ban set or the origin ban map, and leaves the session table and
\* every connection's state, the target's included, unchanged.
InvalidScopeE == ErrorE("Invalid ban type.", FALSE)
C16_InvalidScope ==
    lastEvent' = "admin_ban" =>
        \A c, t \in Conns, m \in BanMsgs :
            (/\ users[c].present /\ users[c].isAdmin
             /\ m.banType \notin {"username", "ip"}
             /\ users[t].present /\ users[t].username = m.targetUsername
             /\ conn[t].state = "open"
             /\ OnMessage(c, m))
            => /\ sent' = OnlyTo(c, InvalidScopeE)
               /\ UNCHANGED <<bannedUsernames, bannedIPs, users, conn>>
C16_InvalidScopeNoChange == [][C16_InvalidScope]_vars
\* an elevated session was refused a ban of another open session, which got
\* nothing and whose origin carries no ban
C16_Witness ==
    /\ lastEvent = "admin_ban"
    /\ \E c, t \in Conns :
        /\ c # t
        /\ users[c].present /\ users[c].isAdmin /\ sent[c] = <<InvalidScopeE>>
        /\ users[t].present /\ conn[t].state = "open" /\ sent[t] = <<>>
        /\ users[t].username \notin bannedUsernames
        /\ bannedIPs[users[t].ip] = NoBan

\* C17 -- Malformed fields are rejected (as claimed).  A join that carries no
\* identity, and a message from an unmuted session that carries no channel or
\* no text, sends the caller one error, nothing to anyone else, and leaves the
\* session table, the ban sets and the channel histories unchanged.
C17_Malformed ==
    lastEvent' \in {"join", "message"} =>
        \A c \in Conns, m \in JoinNoIdentityMsgs \cup ChatNoFieldMsgs :
            (/\ m.type = lastEvent'
             /\ m.type = "message"
                => /\ users[c].present
                   /\ ~(users[c].muteExpires # Null /\ users[c].muteExpires > now)
             /\ OnMessage(c, m))
            => /\ Len(sent'[c]) = 1 /\ sent'[c][1].type = "error"
               /\ \A d \in Conns \ {c} : sent'[d] = <<>>
               /\ UNCHANGED <<users, bannedUsernames, bannedIPs, channels>>
C17_MalformedRejected == [][C17_Malformed]_vars

\* C18 -- admin_clear frame (as claimed).  An admin_clear by an elevated session
\* on an existing channel empties that channel's history only, keeps the set
\* of channels, leaves the sessions, the bans and the connections unchanged,
\* sends every open connection an empty history for that channel and then the
\* caller a confirmation; on a channel that does not exist it sends the caller
\* one error, nothing to anyone else, and changes no state.  No step removes a
\* channel.
ClearedE == ConfirmE("has been cleared")
NoChannelE == ErrorE("Channel not found.", FALSE)
C18_Clear ==
    lastEvent' = "admin_clear" =>
        \A c \in Conns, m \in ClearMsgs :
            (users[c].present /\ users[c].isAdmin /\ OnMessage(c, m))
            => IF m.channel \in DOMAIN channels
               THEN /\ channels' = [channels EXCEPT ![m.channel] = <<>>]
                    /\ UNCHANGED <<users, bannedUsernames, bannedIPs, conn>>
                    /\ sent'[c] = <<HistoryE(m.channel, <<>>), ClearedE>>
                    /\ \A d \in Conns \ {c} :
                         sent'[d] = IF conn[d].state = "open"
                                    THEN <<HistoryE(m.channel, <<>>)>> ELSE <<>>
               ELSE /\ sent' = OnlyTo(c, NoChannelE)
                    /\ UNCHANGED <<users, bannedUsernames, bannedIPs, channels, conn>>
C18_ClearFrame == [][C18_Clear /\ DOMAIN channels \subseteq DOMAIN channels']_vars

\* C19 -- Lazy and swept expiry agree (as claimed).  In every reachable state,
\* for every session with a mute-expiry, the check made by message, typing and
\* the user list treats the mute as absent exactly when a sweep at the same
\* `now` would clear it; and for every origin with a ban record, the check made
\* on connection admits exactly when a sweep at the same `now` would remove
\* the record.
C19_LazyAndSweptAgree ==
    /\ \A c \in Conns :
        (users[c].present /\ users[c].muteExpires # Null)
        => (~MuteActive(users[c].muteExpires, now) <=> MuteSwept(users[c].muteExpires, now))
    /\ \A o \in Origins :
        bannedIPs[o] # NoBan
        => (~OriginBanned(o, now) <=> BanSwept(bannedIPs[o], now))

\* C20 -- Mutation before broadcast.  Every broadcast a join, message,
\* admin_mute or admin_clear event causes is built from the store as the event
\* leaves it: an accepted join's session is in the session table and in the
\* user list that is broadcast; a message broadcast for an existing channel is
\* the newest entry of that channel's history; after an admin_mute the target's
\* mute-expiry is set and the user list that is broadcast shows the target
\* muted; the channel whose empty history admin_clear broadcasts is empty.  The
\* state after the event, which every later read sees, is that same store.
C20_Snapshot ==
    {[username |-> users'[x].username, isAdmin |-> users'[x].isAdmin,
      isMuted |-> (users'[x].muteExpires # Null /\ users'[x].muteExpires > now)] :
        x \in {y \in Conns : users'[y].present}}
C20_ListsAreCurrent ==
    \A d \in Conns : \A i \in DOMAIN sent'[d] :
        sent'[d][i].type = "userList" => sent'[d][i].users = C20_Snapshot
C20_Listed(d) == \E i \in DOMAIN sent'[d] : sent'[d][i].type = "userList"
C20_Join ==
    lastEvent' = "join" =>
        /\ C20_ListsAreCurrent
        /\ \A c \in Conns :
            (Len(sent'[c]) > 0 /\ sent'[c][1].type = "joined")
            => /\ users'[c].present /\ users'[c].username = sent'[c][1].username
               /\ \E u \in C20_Snapshot : u.username = sent'[c][1].username
               /\ \A d \in Conns : conn[d].state = "open" => C20_Listed(d)
C20_Message ==
    lastEvent' = "message" =>
        \A d \in Conns : \A i \in DOMAIN sent'[d] :
            (sent'[d][i].type = "message" /\ sent'[d][i].message.channel \in DOMAIN channels)
            => LET h == channels'[sent'[d][i].message.channel]
               IN  Len(h) > 0 /\ h[Len(h)] = sent'[d][i].message
C20_Mute ==
    lastEvent' = "admin_mute" =>
        /\ C20_ListsAreCurrent
        /\ \A c, t \in Conns, m \in MuteMsgs :
            (/\ users[c].present /\ users[c].isAdmin
             /\ users[t].present /\ users[t].username = m.targetUsername
             /\ OnMessage(c, m))
            => /\ users'[t].muteExpires # Null /\ users'[t].muteExpires > now
               /\ [username |-> m.targetUsername, isAdmin |-> users[t].isAdmin,
                   isMuted |-> TRUE] \in C20_Snapshot
               /\ \A d \in Conns : conn[d].state = "open" => C20_Listed(d)
C20_Clear ==
    lastEvent' = "admin_clear" =>
        \A d \in Conns : \A i \in DOMAIN sent'[d] :
            sent'[d][i].type = "history"
            => /\ sent'[d][i].messages = <<>>
               /\ sent'[d][i].channel \in DOMAIN channels'
               /\ channels'[sent'[d][i].channel] = <<>>
C20_MutationBeforeBroadcast == [][C20_Join /\ C20_Message /\ C20_Mute /\ C20_Clear]_vars
\* an elevated session muted another open session: both were sent a user list
\* that shows the target muted, and the target's mute-expiry is set
C20_Witness ==
    /\ lastEvent = "admin_mute"
    /\ \E c, t \in Conns :
        /\ c # t
        /\ users[c].present /\ users[c].isAdmin /\ conn[c].state = "open"
        /\ users[t].present /\ conn[t].state = "open"
        /\ users[t].muteExpires # Null /\ users[t].muteExpires > now
        /\ \A d \in {c, t} : \E i \in DOMAIN sent[d] :
            /\ sent[d][i].type = "userList"
            /\ [username |-> users[t].username, isAdmin |-> users[t].isAdmin,
                isMuted |-> TRUE] \in sent[d][i].users

\* C21 -- An origin ban blocks joins from that origin (as claimed).  While the
\* origin of an open connection has a ban record whose expiry is after `now`,
\* no join event turns that connection into a joined session.
C21_NoJoin ==
    lastEvent' = "join" =>
        \A c \in Conns :
            (/\ conn[c].state = "open" /\ ~users[c].present
             /\ bannedIPs[conn[c].ip] # NoBan /\ bannedIPs[conn[c].ip] > now)
            => ~users'[c].present
C21_OriginBanBlocksJoin == [][C21_NoJoin]_vars

\* C22 -- Identity release on disconnect.  The close of a connection that has
\* a session (a client disconnect, or the end of a termination by kick or ban)
\* removes that session, after which no entry of the session table holds its
\* identity, and sends every other open connection one user list without that
\* identity; the close of a connection that has no session changes no store
\* and sends nothing.  A join claiming an identity that no entry holds and
\* that is not banned creates the caller's session.  While a terminated
\* connection's close is pending its identity is still held: a join from
\* another connection claiming it is rejected as 'already taken', the caller
\* is terminated and the session table is unchanged.
C22_Close ==
    lastEvent' = "close" =>
        \A c \in Conns :
            (conn[c].state \in {"open", "closing"} /\ Close(c))
            => /\ UNCHANGED <<bannedUsernames, bannedIPs, channels>>
               /\ conn'[c].state = "free"
               /\ IF users[c].present
                  THEN /\ users' = [users EXCEPT ![c] = NoUser]
                       /\ \A d \in Conns : ~(users'[d].present
                                              /\ users'[d].username = users[c].username)
                       /\ \A d \in Conns :
                            IF d # c /\ conn[d].state = "open"
                            THEN /\ Len(sent'[d]) = 1 /\ sent'[d][1].type = "userList"
                                 /\ \A u \in sent'[d][1].users : u.username # users[c].username
                            ELSE sent'[d] = <<>>
                  ELSE users' = users /\ sent' = NothingSent
C22_Join ==
    lastEvent' = "join" =>
        \A c \in Conns, m \in JoinMsgs :
            (m.username \notin bannedUsernames /\ OnMessage(c, m))
            => /\ (\A h \in Conns : ~(users[h].present /\ users[h].username = m.username))
                  => /\ users'[c].present /\ users'[c].username = m.username
                     /\ Len(sent'[c]) > 0 /\ sent'[c][1].type = "joined"
               /\ (\E h \in Conns \ {c} : /\ users[h].present /\ users[h].username = m.username
                                           /\ conn[h].state = "closing")
                  => /\ users' = users
                     /\ sent' = OnlyTo(c, TakenE)
                     /\ conn'[c].state = "closing"
====
